---- MODULE Spec2Model ----
(***************************************************************************)
(* Model of the X-Plane MFD flight calculators.                            *)
(*                                                                         *)
(*   src/non-compliant/flight_calculator.cpp   wind vector, envelope,      *)
(*                                             energy, glide reach, main   *)
(*   src/calculators/wind_calculator.cpp       fmod-based normalize_angle  *)
(*                                                                         *)
(* Numbers.  A C++ double that holds a speed, a distance, a ratio or a     *)
(* percentage is an exact rational [n |-> numerator, d |-> denominator]    *)
(* in lowest terms with d > 0; d = 0 encodes the IEEE specials (n = 1 is   *)
(* +inf, n = -1 is -inf, n = 0 is NaN), so a division by zero is visible   *)
(* in the result instead of being undefined.                               *)
(*                                                                         *)
(* A double that holds an angle in degrees is a binary floating-point      *)
(* number with a MantBits-bit significand, counted in steps of             *)
(* 2^-FracBits degree; sums are rounded to nearest, ties to even, as the   *)
(* hardware does, and fmod is exact.  Headings and tracks are multiples of *)
(* 90 degrees, where sine and cosine are exactly 0, 1 or -1; the angle an  *)
(* atan2 returns is kept as a multiple of 90 degrees plus the direction of *)
(* a first-quadrant vector, so every trigonometric value is exact.         *)
(*                                                                         *)
(* The indicated-airspeed samples of the gust analysis are doubles of the  *)
(* same floating-point format, counted in steps of 2^-FracBits knot: their *)
(* sum, its division by the sample count and the final difference are each *)
(* rounded to nearest.                                                     *)
(***************************************************************************)
EXTENDS Integers, Sequences, FiniteSets, TLC

VARIABLES
    call,       \* function-level runs: the function applied and its arguments
    ret,        \* function-level runs: the value it returned
    pc,         \* main of flight_calculator: position in the program
    argv,       \* main: the command line ([count, bad, values])
    frame,      \* main: local variables computed so far
    stdout,     \* main: what has been printed on standard output
    exit_code   \* main: return value, -1 while running

vars == <<call, ret, pc, argv, frame, stdout, exit_code>>
unitVars == <<call, ret>>
mainVars == <<pc, argv, frame, stdout, exit_code>>

(***************************************************************************)
(* Bounds of the model                                                     *)
(***************************************************************************)
MantBits == 9       \* significand width of the angle floating-point format
FracBits == 2       \* the angle grid is 2^-FracBits degree
MaxCircles == 3     \* angles handed to normalize_angle span +-MaxCircles turns
MaxAgl == 3         \* heights above ground are -MaxAgl..MaxAgl times 500 ft
MaxHw == 17         \* headwinds are -MaxHw..MaxHw times 5 kt
MaxHist == 2        \* IAS histories hold up to MaxHist samples
MaxIas == 1         \* IAS samples are -MaxIas..MaxIas
MaxSpeed == 2       \* TAS and GS are 0..MaxSpeed
MaxQuarter == 4     \* headings and tracks are -90..MaxQuarter*90 degrees
MaxVsHalf == 104    \* vertical speeds are -MaxVsHalf..MaxVsHalf half-ft/min
RootLoadAt90 == 128 \* square root of the (finite) load factor at 90 degrees
MaxSteady == 8      \* steady IAS histories: the top MaxSteady grid values
MaxChoose == 10     \* binomial_coefficient is applied to 0..MaxChoose
MaxDriftOff == 3    \* tracks and headings: spacings off a multiple of 90

(***************************************************************************)
(* double as an exact rational                                             *)
(***************************************************************************)
Abs(x) == IF x < 0 THEN -x ELSE x

Sign(x) == IF x < 0 THEN -1 ELSE IF x > 0 THEN 1 ELSE 0

RECURSIVE Gcd(_, _)
Gcd(a, b) == IF b = 0 THEN a ELSE Gcd(b, a % b)

Rat(n, d) ==
    IF d = 0 THEN [n |-> Sign(n), d |-> 0]
    ELSE LET g == Gcd(Abs(n), Abs(d))
             s == IF d < 0 THEN -1 ELSE 1
         IN  [n |-> s * (n \div g), d |-> s * (d \div g)]

R(i) == [n |-> i, d |-> 1]

IsNaN(a) == a.d = 0 /\ a.n = 0

IsFinite(a) == a.d # 0

RAdd(a, b) ==
    IF a.d = 0 /\ b.d = 0
    THEN (IF a.n = b.n THEN a ELSE [n |-> 0, d |-> 0])
    ELSE Rat(a.n * b.d + b.n * a.d, a.d * b.d)

RNeg(a) == [n |-> -a.n, d |-> a.d]

RSub(a, b) == RAdd(a, RNeg(b))

\* common factors are cancelled crosswise before the products are formed
RMul(a, b) ==
    IF a.d = 0 \/ b.d = 0 THEN Rat(a.n * b.n, 0)
    ELSE LET g1 == Gcd(Abs(a.n), b.d)
             g2 == Gcd(Abs(b.n), a.d)
         IN  Rat((a.n \div g1) * (b.n \div g2), (a.d \div g2) * (b.d \div g1))

RDiv(a, b) == RMul(a, [n |-> b.d * Sign(b.n), d |-> Abs(b.n)])

\* a < b as IEEE compares: false as soon as one side is NaN
RLt(a, b) ==
    /\ ~IsNaN(a)
    /\ ~IsNaN(b)
    /\ IF a.d = 0 /\ b.d = 0 THEN a.n < b.n
       ELSE IF a.d = 0 \/ b.d = 0 THEN a.n * b.d < b.n * a.d
       ELSE IF a.n \div a.d # b.n \div b.d THEN a.n \div a.d < b.n \div b.d
       ELSE LET g == Gcd(a.d, b.d)
            IN  (a.n % a.d) * (b.d \div g) < (b.n % b.d) * (a.d \div g)

RGt(a, b) == RLt(b, a)

RGe(a, b) == ~IsNaN(a) /\ ~IsNaN(b) /\ ~RLt(a, b)

RLe(a, b) == RGe(b, a)

\* std::fabs
RAbs(a) == [n |-> Abs(a.n), d |-> a.d]

(***************************************************************************)
(* double as an angle in degrees: binary floating point on a grid          *)
(***************************************************************************)
RECURSIVE Pow2(_)
Pow2(k) == IF k = 0 THEN 1 ELSE 2 * Pow2(k - 1)

\* grid steps per degree
Unit == Pow2(FracBits)

Deg(x) == x * Unit

\* distance between neighbouring representable values at magnitude a >= 0
RECURSIVE UlpOf(_)
UlpOf(a) == IF a < Pow2(MantBits) THEN 1 ELSE 2 * UlpOf(a \div 2)

\* round to nearest representable value, ties to the even significand
FlRound(u) ==
    LET a == Abs(u)
        q == UlpOf(a)
        lo == (a \div q) * q
        rem == a - lo
        up == \/ 2 * rem > q
              \/ (2 * rem = q /\ (lo \div q) % 2 = 1)
    IN  Sign(u) * (IF up THEN lo + q ELSE lo)

Representable(u) == FlRound(u) = u

FAdd(a, b) == FlRound(a + b)

FSub(a, b) == FlRound(a - b)

\* u / n for a count n > 0, rounded to nearest, ties to the even significand
FDiv(u, n) ==
    LET a == Abs(u)
        q == UlpOf(a \div n)
        lo == (a \div (n * q)) * q
        rem == a - lo * n
        up == \/ 2 * rem > q * n
              \/ (2 * rem = q * n /\ (lo \div q) % 2 = 1)
    IN  Sign(u) * (IF up THEN lo + q ELSE lo)

\* std::fmod: exact, the result has the sign of the dividend
FMod(a, m) == Sign(a) * (Abs(a) % m)

(***************************************************************************)
(* normalize_angle, loop-based (flight_calculator.cpp)                     *)
(***************************************************************************)
\* while (angle < 0) angle += 360.0;  with the number of iterations
RECURSIVE AddLoop(_, _)
AddLoop(angle, n) ==
    IF angle < 0 THEN AddLoop(FAdd(angle, Deg(360)), n + 1)
    ELSE [angle |-> angle, steps |-> n]

\* while (angle >= 360.0) angle -= 360.0;  with the number of iterations
RECURSIVE SubLoop(_, _)
SubLoop(angle, n) ==
    IF angle >= Deg(360) THEN SubLoop(FSub(angle, Deg(360)), n + 1)
    ELSE [angle |-> angle, steps |-> n]

normalize_angle_run(angle) ==
    LET up == AddLoop(angle, 0)
    IN  SubLoop(up.angle, up.steps)

normalize_angle(angle) == normalize_angle_run(angle).angle

(***************************************************************************)
(* normalize_angle, fmod-based (wind_calculator.cpp)                       *)
(***************************************************************************)
wind_normalize_angle_run(angle) ==
    LET result == FMod(angle, Deg(360))
    IN  IF result < 0
        THEN [angle |-> FAdd(result, Deg(360)), steps |-> 1]
        ELSE [angle |-> result, steps |-> 0]

wind_normalize_angle(angle) == wind_normalize_angle_run(angle).angle

(***************************************************************************)
(* binomial_coefficient (flight_calculator.cpp)                            *)
(***************************************************************************)
\* the number of ordered selections, n! / (n - k)!
RECURSIVE ordered_selections(_, _)
ordered_selections(n, k) ==
    IF k > n THEN 0
    ELSE IF k = 0 THEN 1
    ELSE n * ordered_selections(n - 1, k - 1)

\* the number of invocations one call makes, itself included
RECURSIVE binomial_calls(_, _)
binomial_calls(n, k) ==
    IF k > n \/ k = 0 \/ k = n \/ k = 1 THEN 1
    ELSE 1 + binomial_calls(n - 1, k - 1) + binomial_calls(n - 1, k)

RECURSIVE binomial_coefficient(_, _)
binomial_coefficient(n, k) ==
    IF k > n THEN 0
    ELSE IF k = 0 \/ k = n THEN 1
    ELSE IF k = 1 THEN n
    ELSE binomial_coefficient(n - 1, k - 1) + binomial_coefficient(n - 1, k)

(***************************************************************************)
(* Trigonometry on the exact lattice                                       *)
(***************************************************************************)
\* quarter turns (0..3) of an angle that is a multiple of 90 degrees
Quadrant(a) == (a \div Deg(90)) % 4

\* std::sin / std::cos of a heading or track (a multiple of 90 degrees)
SinDeg(a) ==
    LET q == Quadrant(a)
    IN  IF q = 1 THEN R(1) ELSE IF q = 3 THEN R(-1) ELSE R(0)

CosDeg(a) ==
    LET q == Quadrant(a)
    IN  IF q = 0 THEN R(1) ELSE IF q = 2 THEN R(-1) ELSE R(0)

\* the sum of the two vectors instead of their difference
VecAdd(a, b) == [x |-> RAdd(a.x, b.x), y |-> RAdd(a.y, b.y)]

\* Vector2D::operator-
VecSub(a, b) == [x |-> RSub(a.x, b.x), y |-> RSub(a.y, b.y)]

NormSq(x, y) == RAdd(RMul(x, x), RMul(y, y))

\* Vector2D::magnitude: the non-negative square root of sq, kept symbolic
magnitude(v) == [sq |-> NormSq(v.x, v.y)]

ISqrt(k) == CHOOSE i \in 0..k : i * i = k

\* std::sqrt of a rational square; NaN below zero
RSqrt(a) ==
    IF IsNaN(a) \/ a.n < 0 THEN [n |-> 0, d |-> 0]
    ELSE IF a.d = 0 THEN a
    ELSE [n |-> ISqrt(a.n), d |-> ISqrt(a.d)]

\* std::atan2(x, y) * RAD_TO_DEG, in (-180, 180]: a multiple of 90 degrees
\* (turn) plus the angle in [0, 90) whose sine : cosine is ray[1] : ray[2]
Atan2Deg(x, y) ==
    IF x.n = 0 /\ y.n = 0 THEN [turn |-> 0, ray |-> <<R(0), R(1)>>]
    ELSE IF x.n >= 0 /\ y.n > 0 THEN [turn |-> 0, ray |-> <<x, y>>]
    ELSE IF x.n > 0 THEN [turn |-> Deg(90), ray |-> <<RNeg(y), x>>]
    ELSE IF x.n = 0 THEN [turn |-> Deg(180), ray |-> <<R(0), RNeg(y)>>]
    ELSE IF y.n < 0 THEN [turn |-> -Deg(180), ray |-> <<RNeg(x), RNeg(y)>>]
    ELSE [turn |-> -Deg(90), ray |-> <<y, RNeg(x)>>]

\* std::cos / std::sin of turn + ray, as num / sqrt(magsq)
CosAngle(a) ==
    LET q == Quadrant(a.turn)
        num == IF q = 0 THEN a.ray[2]
               ELSE IF q = 1 THEN RNeg(a.ray[1])
               ELSE IF q = 2 THEN RNeg(a.ray[2])
               ELSE a.ray[1]
    IN  [num |-> num, magsq |-> NormSq(a.ray[1], a.ray[2])]

SinAngle(a) ==
    LET q == Quadrant(a.turn)
        num == IF q = 0 THEN a.ray[1]
               ELSE IF q = 1 THEN a.ray[2]
               ELSE IF q = 2 THEN RNeg(a.ray[1])
               ELSE RNeg(a.ray[2])
    IN  [num |-> num, magsq |-> NormSq(a.ray[1], a.ray[2])]

\* speed * trig, speed = sqrt(speed.sq) and trig = num / sqrt(magsq)
SpeedTimes(speed, trig) ==
    IF speed.sq.n = 0 THEN R(0)
    ELSE RMul(trig.num, RSqrt(RDiv(speed.sq, trig.magsq)))

(***************************************************************************)
(* 1. Wind vector (flight_calculator.cpp)                                  *)
(***************************************************************************)
\* the scan of the history buffer: running maximum (from 0) and sum
RECURSIVE GustScan(_, _, _, _)
GustScan(h, i, max_ias, sum_ias) ==
    IF i > Len(h) THEN [max_ias |-> max_ias, sum_ias |-> sum_ias]
    ELSE GustScan(h, i + 1,
                  IF h[i] > max_ias THEN h[i] ELSE max_ias,
                  FAdd(sum_ias, h[i]))

gust_factor_of(ias_history) ==
    IF Len(ias_history) # 0
    THEN LET scan == GustScan(ias_history, 1, 0, 0)
             avg_ias == FDiv(scan.sum_ias, Len(ias_history))
         IN  FSub(scan.max_ias, avg_ias)
    ELSE 0

\* result.headwind = -result.speed_kts * std::cos(rel_wind_rad)
headwind_unsigned(speed_kts, rel_wind) ==
    SpeedTimes(speed_kts, CosAngle(rel_wind))

headwind_of(speed_kts, rel_wind) ==
    RNeg(SpeedTimes(speed_kts, CosAngle(rel_wind)))

\* result.crosswind = result.speed_kts * std::sin(rel_wind_rad)
crosswind_of(speed_kts, rel_wind) ==
    SpeedTimes(speed_kts, SinAngle(rel_wind))

calculate_wind_vector(tas_kts, gs_kts, heading_deg, track_deg, ias_history) ==
    LET air_vec == [x |-> RMul(tas_kts, SinDeg(heading_deg)),
                    y |-> RMul(tas_kts, CosDeg(heading_deg))]
        ground_vec == [x |-> RMul(gs_kts, SinDeg(track_deg)),
                       y |-> RMul(gs_kts, CosDeg(track_deg))]
        wind_vec == VecSub(ground_vec, air_vec)
        speed_kts == magnitude(wind_vec)
        wind_to == Atan2Deg(wind_vec.x, wind_vec.y)
        direction_from ==
            [wind_to EXCEPT !.turn = normalize_angle(FAdd(@, Deg(180)))]
        rel_wind ==
            [direction_from EXCEPT
                !.turn = FSub(FAdd(@, Deg(180)), track_deg)]
    IN  [speed_kts |-> speed_kts,
         direction_from |-> direction_from,
         headwind |-> headwind_of(speed_kts, rel_wind),
         crosswind |-> crosswind_of(speed_kts, rel_wind),
         gust_factor |-> gust_factor_of(ias_history)]

(***************************************************************************)
(* 2. Envelope margins (flight_calculator.cpp)                             *)
(***************************************************************************)
\* Bank angles whose load factor has a rational square root: degrees (to
\* 0.01) with the exact cosine of the angle.  std::cos(90 * DEG_TO_RAD) is a
\* tiny positive double (6.1e-17), since 90 * DEG_TO_RAD is not exactly pi/2:
\* the load factor there is huge and finite, RootLoadAt90 squared here.

BankTable ==
    { [deg |-> R(0),             cos |-> R(1)],
      [deg |-> Rat(3781, 100),   cos |-> Rat(64, 81)],
      [deg |-> Rat(5021, 100),   cos |-> Rat(16, 25)],
      [deg |-> Rat(6361, 100),   cos |-> Rat(4, 9)],
      [deg |-> Rat(7552, 100),   cos |-> Rat(1, 4)],
      [deg |-> Rat(-7552, 100),  cos |-> Rat(1, 4)],
      [deg |-> Rat(8362, 100),   cos |-> Rat(1, 9)],
      [deg |-> R(90),            cos |-> Rat(1, RootLoadAt90 * RootLoadAt90)],
      [deg |-> Rat(10448, 100),  cos |-> Rat(-1, 4)],
      [deg |-> R(180),           cos |-> R(-1)] }

\* std::cos(bank_deg * DEG_TO_RAD)
CosBank(bank_deg) == (CHOOSE e \in BankTable : e.deg = bank_deg).cos

Percent(part, whole) == RMul(RDiv(part, whole), R(100))

\* the margin measured from the airspeed up to the stall speed
stall_margin_reversed(ias_kts, vs_current) ==
    IF RGt(vs_current, R(0))
    THEN Percent(RSub(vs_current, ias_kts), vs_current)
    ELSE R(100)

stall_margin(ias_kts, vs_current) ==
    IF RGt(vs_current, R(0))
    THEN Percent(RSub(ias_kts, vs_current), vs_current)
    ELSE R(100)

vmo_margin_unguarded(vne_kts, ias_kts) ==
    Percent(RSub(vne_kts, ias_kts), vne_kts)

vmo_margin(vne_kts, ias_kts) ==
    IF RGt(vne_kts, R(0))
    THEN Percent(RSub(vne_kts, ias_kts), vne_kts)
    ELSE R(100)

mmo_margin(mmo, mach) ==
    IF RGt(mmo, R(0))
    THEN Percent(RSub(mmo, mach), mmo)
    ELSE R(100)

\* the smaller of the first two margins only
min_of_first_two(a, b, c) == IF RLt(b, a) THEN b ELSE a

\* std::min over an initializer list: the first smallest element by <
Min3(a, b, c) ==
    LET ab == IF RLt(b, a) THEN b ELSE a
    IN  IF RLt(c, ab) THEN c ELSE ab

calculate_envelope(bank_deg, ias_kts, mach, vso_kts, vne_kts, mmo) ==
    LET load_factor == RDiv(R(1), CosBank(bank_deg))
        vs_current == RMul(vso_kts, RSqrt(load_factor))
        stall == stall_margin(ias_kts, vs_current)
        vmo == vmo_margin(vne_kts, ias_kts)
        mmo_pct == mmo_margin(mmo, mach)
    IN  [stall_margin_pct |-> stall,
         vmo_margin_pct |-> vmo,
         mmo_margin_pct |-> mmo_pct,
         min_margin_pct |-> Min3(stall, vmo, mmo_pct),
         \* vso_kts * std::sqrt(2.5), the root kept symbolic
         corner_speed_kts |-> [times |-> vso_kts, root_of |-> Rat(5, 2)],
         current_load_factor |-> load_factor]

(***************************************************************************)
(* 3. Energy state (flight_calculator.cpp)                                 *)
(***************************************************************************)
\* The conversion constants, as integers: KTS_TO_MS = 0.514444 in 1e-6,
\* 2.0 * GRAVITY = 19.6133 in 1e-3, FT_TO_M = 0.3048 in 1e-4, M_TO_FT =
\* 3.28084 in 1e-3.  The energy height is carried in fixed point (speed in
\* cm/s, heights in dm), each step truncated.
KtsToMsE6 == 514444
TwoGravityE3 == 19613
FtToME4 == 3048
MToFtE3 == 3281

specific_energy_ft_of(tas_kts, altitude_ft) ==
    LET v_cms == (tas_kts.n * KtsToMsE6) \div (10000 * tas_kts.d)
        h_dm == (altitude_ft.n * FtToME4) \div (1000 * altitude_ft.d)
        ke_dm == (v_cms * v_cms) \div TwoGravityE3
        specific_energy_dm == ke_dm + h_dm
    IN  R((specific_energy_dm * MToFtE3) \div 10000)

energy_trend_inclusive(rate) ==
    IF RGe(rate, R(50)) THEN "Increasing"
    ELSE IF RLe(rate, R(-50)) THEN "Decreasing"
    ELSE "Stable"

energy_trend(rate) ==
    IF RGt(rate, R(50)) THEN "Increasing"
    ELSE IF RLt(rate, R(-50)) THEN "Decreasing"
    ELSE "Stable"

calculate_energy(tas_kts, altitude_ft, vs_fpm) ==
    [specific_energy_ft |-> specific_energy_ft_of(tas_kts, altitude_ft),
     specific_energy_rate |-> vs_fpm,
     trend |-> energy_trend(vs_fpm)]

(***************************************************************************)
(* 4. Glide reach (flight_calculator.cpp)                                  *)
(***************************************************************************)
FtPerNm == 6076

\* if (result.max_range_with_wind_nm < 0) result.max_range_with_wind_nm = 0
clamp_missing(with_wind) == with_wind

ensure_non_negative(with_wind) ==
    IF RLt(with_wind, R(0)) THEN R(0) ELSE with_wind

calculate_glide_reach(agl_ft, headwind_kts) ==
    LET glide_ratio == R(12)
        best_glide_speed_kts == R(75)
        altitude_nm == RDiv(agl_ft, R(FtPerNm))
        max_range_nm == RMul(altitude_nm, glide_ratio)
        wind_factor ==
            IF RGt(best_glide_speed_kts, R(0))
            THEN RSub(R(1), RDiv(headwind_kts, best_glide_speed_kts))
            ELSE R(1)
        with_wind == RMul(max_range_nm, wind_factor)
    IN  [max_range_nm |-> max_range_nm,
         max_range_with_wind_nm |-> ensure_non_negative(with_wind),
         glide_ratio |-> glide_ratio,
         best_glide_speed_kts |-> best_glide_speed_kts]

(***************************************************************************)
(* calculate_wind (wind_calculator.cpp)                                    *)
(***************************************************************************)
\* normalize_angle(a - b), left in [0, 360]
unsigned_difference(a, b) == wind_normalize_angle(FSub(a, b))

\* normalize_angle(a - b); if (x > half_circle) x -= angle_wrap_limit;
signed_difference(a, b) ==
    LET x == wind_normalize_angle(FSub(a, b))
    IN  IF x > Deg(180) THEN FSub(x, Deg(360)) ELSE x

calculate_wind(track_in, heading_in, wind_dir_in, wind_speed) ==
    LET track == wind_normalize_angle(track_in)
        heading == wind_normalize_angle(heading_in)
        wind_dir == wind_normalize_angle(wind_dir_in)
        wind_from_relative == signed_difference(wind_dir, track)
    IN  [headwind |-> RMul(RNeg(wind_speed), CosDeg(wind_from_relative)),
         crosswind |-> RMul(wind_speed, SinDeg(wind_from_relative)),
         total_wind |-> wind_speed,
         wca |-> R(0),
         drift |-> signed_difference(track, heading)]

(***************************************************************************)
(* calculate_vnav (vnav_calculator.cpp)                                    *)
(***************************************************************************)
nm_to_ft == Rat(607612, 100)

vs_conversion_factor == Rat(10127, 100)

min_distance_nm == Rat(1, 100)

min_groundspeed_kts == R(1)

min_vs_for_time_calc == R(1)

infinite_time == Rat(9999, 10)

\* tan(three_deg_rad) = 0.0524078, to four decimals
tan_three_deg == Rat(524, 10000)

\* a quotient of two doubles, kept as the pair so that the integers of the
\* model stay in range; its sign is the product of the two signs
Quot(num, den) == [num |-> num, den |-> den]

QSign(q) == Sign(q.num.n) * Sign(q.den.n)

\* the value is used as it is
no_minimum(value, minimum) == value

\* if (value < minimum) value = minimum;
at_least(value, minimum) == IF RLt(value, minimum) THEN minimum ELSE value

\* every vertical speed is divided by
any_vs_usable(current_vs_fpm) == TRUE

\* std::fabs(current_vs_fpm) > min_vs_for_time_calc
vs_usable(current_vs_fpm) == RGt(RAbs(current_vs_fpm), min_vs_for_time_calc)

\* dist and gs: distance_nm and groundspeed_kts as passed by the caller
calculate_vnav(current_alt_ft, target_alt_ft, dist, gs, current_vs_fpm) ==
    LET altitude_change_ft == RSub(target_alt_ft, current_alt_ft)
        is_descent == RLt(altitude_change_ft, R(0))
        distance_nm == at_least(dist, min_distance_nm)
        groundspeed_kts == at_least(gs, min_groundspeed_kts)
        distance_ft == RMul(distance_nm, nm_to_ft)
        \* tan(gamma_rad) = tan(atan(altitude_change_ft / distance_ft))
        tan_gamma == Quot(altitude_change_ft, distance_ft)
        abs_alt_change == RAbs(altitude_change_ft)
        vs_for_3deg == RMul(RMul(vs_conversion_factor, groundspeed_kts),
                            tan_three_deg)
    IN  [altitude_to_lose_ft |-> RNeg(altitude_change_ft),
         \* atan(tan_gamma) in degrees: the angle keeps the sign of tan_gamma
         flight_path_angle_deg |-> [atan_of |-> tan_gamma],
         required_vs_fpm |->
             Quot(RMul(RMul(vs_conversion_factor, groundspeed_kts),
                       tan_gamma.num),
                  tan_gamma.den),
         tod_distance_nm |->
             RDiv(abs_alt_change, RMul(nm_to_ft, tan_three_deg)),
         time_to_constraint_min |->
             IF vs_usable(current_vs_fpm)
             THEN RDiv(altitude_change_ft, current_vs_fpm)
             ELSE infinite_time,
         distance_per_1000ft |->
             IF RGt(abs_alt_change, min_vs_for_time_calc)
             THEN RDiv(RMul(distance_nm, R(1000)), abs_alt_change)
             ELSE R(0),
         vs_for_3deg |-> IF ~is_descent THEN RNeg(vs_for_3deg)
                         ELSE vs_for_3deg,
         is_descent |-> is_descent]

\* the divisions one call of calculate_vnav executes, each with the value it
\* divides by
vnav_divisions(current_alt_ft, target_alt_ft, dist, gs, current_vs_fpm) ==
    LET altitude_change_ft == RSub(target_alt_ft, current_alt_ft)
        distance_nm == at_least(dist, min_distance_nm)
        distance_ft == RMul(distance_nm, nm_to_ft)
        abs_alt_change == RAbs(altitude_change_ft)
    IN  {[of |-> "gamma_rad", by |-> distance_ft],
         [of |-> "tod_distance_nm", by |-> RMul(nm_to_ft, tan_three_deg)]}
        \cup (IF vs_usable(current_vs_fpm)
              THEN {[of |-> "time_to_constraint_min", by |-> current_vs_fpm]}
              ELSE {})
        \cup (IF RGt(abs_alt_change, min_vs_for_time_calc)
              THEN {[of |-> "distance_per_1000ft", by |-> abs_alt_change]}
              ELSE {})

(***************************************************************************)
(* calculate_turn_performance (turn_calculator.cpp)                        *)
(*                                                                         *)
(* The doubles of the turn calculator are rationals rounded to a           *)
(* MantBits-bit significand: every literal is the nearest such number and  *)
(* every product and quotient is rounded to nearest, ties to even.         *)
(***************************************************************************)
\* the significand of r / d (0 <= r < d) continued from m, one bit at a time,
\* until it has MantBits bits; k counts the bits below the binary point
RECURSIVE Significand(_, _, _, _)
Significand(m, r, d, k) ==
    IF m >= Pow2(MantBits - 1) THEN [m |-> m, r |-> r, k |-> k]
    ELSE LET bit == IF 2 * r >= d THEN 1 ELSE 0
         IN  Significand(2 * m + bit, 2 * r - bit * d, d, k + 1)

\* the double nearest to the rational a
RFl(a) ==
    IF a.d = 0 \/ a.n = 0 THEN a
    ELSE IF Abs(a.n) \div a.d >= Pow2(MantBits - 1)
    THEN R(FDiv(a.n, a.d))
    ELSE LET s == Significand(Abs(a.n) \div a.d, Abs(a.n) % a.d, a.d, 0)
             up == \/ 2 * s.r > a.d
                   \/ (2 * s.r = a.d /\ s.m % 2 = 1)
         IN  Rat(Sign(a.n) * (IF up THEN s.m + 1 ELSE s.m), Pow2(s.k))

XMul(a, b) == RFl(RMul(a, b))

XDiv(a, b) == RFl(RDiv(a, b))

gravity == RFl(Rat(980665, 100000))

kts_to_ms == RFl(Rat(514444, 1000000))

standard_rate == R(3)

\* std::numbers::pi / 180.0 and 180.0 / std::numbers::pi
deg_to_rad == RFl(Rat(17453, 1000000))

rad_to_deg == RFl(Rat(572958, 10000))

infinite_radius_nm == RFl(Rat(9999, 10))

infinite_radius_ft == RFl(R(999900))

min_tan_threshold == RFl(Rat(1, 1000))

min_turn_rate_threshold == RFl(Rat(1, 100))

meters_per_nm == RFl(R(1852))

feet_per_meter == RFl(Rat(328084, 100000))

\* std::cos and std::tan of bank_deg * deg_to_rad, to four decimals; at 90
\* degrees the argument is not exactly pi/2 and both values are finite
\* (6.1e-17 and 1.6e16), RootLoadAt90 squared and its inverse here; a NaN
\* angle gives NaN
TurnBankTable ==
    { [deg |-> R(0),         cos |-> R(1),               tan |-> R(0)],
      [deg |-> Rat(5, 100),  cos |-> R(1),               tan |-> Rat(9, 10000)],
      [deg |-> Rat(1, 10),   cos |-> R(1),               tan |-> Rat(17, 10000)],
      [deg |-> R(25),        cos |-> Rat(9063, 10000),   tan |-> Rat(4663, 10000)],
      [deg |-> R(60),        cos |-> Rat(1, 2),          tan |-> Rat(17321, 10000)],
      [deg |-> R(90),        cos |-> Rat(1, RootLoadAt90 * RootLoadAt90),
                             tan |-> R(RootLoadAt90 * RootLoadAt90)],
      [deg |-> Rat(0, 0),    cos |-> Rat(0, 0),          tan |-> Rat(0, 0)] }

TurnBank(bank_deg) == CHOOSE e \in TurnBankTable : e.deg = bank_deg

\* std::tan(delta_psi_rad / 2.0), by the course change in degrees
HalfTanTable ==
    { [deg |-> R(-90), tan |-> R(-1)],
      [deg |-> R(0),   tan |-> R(0)],
      [deg |-> R(90),  tan |-> R(1)],
      [deg |-> R(180), tan |-> R(RootLoadAt90 * RootLoadAt90)] }

HalfTan(course_change_deg) ==
    (CHOOSE e \in HalfTanTable : e.deg = course_change_deg).tan

\* no bank is wings level
never_wings_level(tan_phi) == FALSE

\* std::fabs(tan_phi) < min_tan_threshold
wings_level(tan_phi) == RLt(RAbs(tan_phi), min_tan_threshold)

\* std::fabs(result.turn_rate_dps) > min_turn_rate_threshold
turn_rate_usable(turn_rate_dps) ==
    RGt(RAbs(turn_rate_dps), min_turn_rate_threshold)

calculate_turn_performance(tas_kts, bank_deg, course_change_deg) ==
    LET v_ms == XMul(tas_kts, kts_to_ms)
        tan_phi == RFl(TurnBank(bank_deg).tan)
        load_factor == XDiv(R(1), RFl(TurnBank(bank_deg).cos))
        std_rate_rad_s == XMul(standard_rate, deg_to_rad)
        \* atan(...) * rad_to_deg, the angle kept by its tangent
        standard_rate_bank ==
            [atan_of |-> XDiv(XMul(std_rate_rad_s, v_ms), gravity)]
        radius_m == XDiv(XMul(v_ms, v_ms), XMul(gravity, tan_phi))
        omega_rad_s == XDiv(XMul(gravity, tan_phi), v_ms)
        turn_rate_dps == XMul(omega_rad_s, rad_to_deg)
        lead_m == XMul(radius_m, RFl(HalfTan(course_change_deg)))
    IN  IF wings_level(tan_phi)
        THEN [radius_nm |-> infinite_radius_nm,
              radius_ft |-> infinite_radius_ft,
              turn_rate_dps |-> R(0),
              lead_distance_nm |-> R(0),
              lead_distance_ft |-> R(0),
              time_to_turn_sec |-> infinite_time,
              load_factor |-> load_factor,
              standard_rate_bank |-> standard_rate_bank]
        ELSE [radius_nm |-> XDiv(radius_m, meters_per_nm),
              radius_ft |-> XMul(radius_m, feet_per_meter),
              turn_rate_dps |-> turn_rate_dps,
              lead_distance_nm |-> XDiv(lead_m, meters_per_nm),
              lead_distance_ft |-> XMul(lead_m, feet_per_meter),
              time_to_turn_sec |->
                  IF turn_rate_usable(turn_rate_dps)
                  THEN XDiv(course_change_deg, turn_rate_dps)
                  ELSE infinite_time,
              load_factor |-> load_factor,
              standard_rate_bank |-> standard_rate_bank]

\* the divisions one call of calculate_turn_performance executes, each with
\* the value it divides by
turn_divisions(tas_kts, bank_deg, course_change_deg) ==
    LET v_ms == XMul(tas_kts, kts_to_ms)
        tan_phi == RFl(TurnBank(bank_deg).tan)
        radius_m == XDiv(XMul(v_ms, v_ms), XMul(gravity, tan_phi))
        omega_rad_s == XDiv(XMul(gravity, tan_phi), v_ms)
        turn_rate_dps == XMul(omega_rad_s, rad_to_deg)
    IN  {[of |-> "load_factor", by |-> RFl(TurnBank(bank_deg).cos)],
         [of |-> "std_bank_rad", by |-> gravity]}
        \cup (IF wings_level(tan_phi) THEN {}
              ELSE {[of |-> "radius_m", by |-> XMul(gravity, tan_phi)],
                    [of |-> "radius_nm", by |-> meters_per_nm],
                    [of |-> "omega_rad_s", by |-> v_ms],
                    [of |-> "lead_m", by |-> R(2)],
                    [of |-> "lead_distance_nm", by |-> meters_per_nm]}
                   \cup (IF turn_rate_usable(turn_rate_dps)
                         THEN {[of |-> "time_to_turn_sec",
                                by |-> turn_rate_dps]}
                         ELSE {}))

(***************************************************************************)
(* Function-level runs: one action per function, inputs from small sets    *)
(***************************************************************************)
AglInputs == {500 * k : k \in -MaxAgl..MaxAgl}

HeadwindInputs == {5 * k : k \in -MaxHw..MaxHw}

Unset == [unset |-> TRUE]

EmptyFrame ==
    [computed |-> {}, in |-> Unset, ias_history |-> <<>>, wind |-> Unset,
     envelope |-> Unset, energy |-> Unset, glide |-> Unset]

MainIdle ==
    /\ pc = "idle"
    /\ argv = [count |-> 0]
    /\ frame = EmptyFrame
    /\ stdout = <<>>
    /\ exit_code = -1

Init ==
    /\ call = [fn |-> "none"]
    /\ ret = [fn |-> "none"]
    /\ MainIdle

\* a function-level run applies one function once, to any input of its set
Fresh == call.fn = "none"

GlideReach ==
    /\ Fresh
    /\ \E agl \in AglInputs, hw \in HeadwindInputs :
          /\ call' = [fn |-> "calculate_glide_reach",
                      agl_ft |-> R(agl), headwind_kts |-> R(hw)]
          /\ ret' = calculate_glide_reach(R(agl), R(hw))
    /\ UNCHANGED mainVars

SpeedInputs == 0..MaxSpeed

CourseInputs == {Deg(90 * k) : k \in -1..MaxQuarter}

RECURSIVE SeqsUpTo(_, _)
SeqsUpTo(S, n) ==
    IF n = 0 THEN {<<>>}
    ELSE LET shorter == SeqsUpTo(S, n - 1)
         IN  shorter \cup {Append(h, x) : h \in shorter, x \in S}

\* whole knots, in grid steps
IasSamples == {Unit * k : k \in -MaxIas..MaxIas}

\* the double nearest to a literal given in tenths of a knot
Tenths(t) == FDiv(t * Unit, 10)

\* the history main passes: {145.5, 148.0, 151.2, 149.5, 155.8, 152.1}
MainHistory ==
    <<Tenths(1455), Tenths(1480), Tenths(1512), Tenths(1495),
      Tenths(1558), Tenths(1521)>>

\* a steady airspeed: three equal samples, at the top of a binade
SteadyHistories ==
    {<<x, x, x>> : x \in Pow2(MantBits) - MaxSteady..Pow2(MantBits) - 1}

HistoryInputs ==
    SeqsUpTo(IasSamples, MaxHist) \cup SteadyHistories \cup {MainHistory}

WindVector ==
    /\ Fresh
    /\ \E tas \in SpeedInputs, gs \in SpeedInputs,
          heading \in CourseInputs, track \in CourseInputs,
          hist \in HistoryInputs :
          /\ call' = [fn |-> "calculate_wind_vector",
                      tas_kts |-> R(tas), gs_kts |-> R(gs),
                      heading_deg |-> heading, track_deg |-> track,
                      ias_history |-> hist]
          /\ ret' = calculate_wind_vector(R(tas), R(gs), heading, track, hist)
    /\ UNCHANGED mainVars

\* representable angles within +-MaxCircles full circles
AngleInputs ==
    {u \in -Deg(360 * MaxCircles)..Deg(360 * MaxCircles) : Representable(u)}

NormalizeAngle ==
    /\ Fresh
    /\ \E angle \in AngleInputs :
          /\ call' = [fn |-> "normalize_angle", angle |-> angle]
          /\ ret' = normalize_angle_run(angle)
    /\ UNCHANGED mainVars

WindNormalizeAngle ==
    /\ Fresh
    /\ \E angle \in AngleInputs :
          /\ call' = [fn |-> "wind_normalize_angle", angle |-> angle]
          /\ ret' = wind_normalize_angle_run(angle)
    /\ UNCHANGED mainVars

BankInputs == {e.deg : e \in BankTable}

IasInputs == {R(-60), R(0), R(60), R(180), R(400)}

VsoInputs == {R(-120), R(0), R(120)}

VneInputs == {R(-350), R(0), R(350)}

MachInputs == {Rat(1, 2), Rat(9, 10)}

MmoInputs == {Rat(-82, 100), R(0), Rat(82, 100)}

Envelope ==
    /\ Fresh
    /\ \E bank \in BankInputs, ias \in IasInputs, mach \in MachInputs,
          vso \in VsoInputs, vne \in VneInputs, mmo \in MmoInputs :
          /\ call' = [fn |-> "calculate_envelope",
                      bank_deg |-> bank, ias_kts |-> ias, mach |-> mach,
                      vso_kts |-> vso, vne_kts |-> vne, mmo |-> mmo]
          /\ ret' = calculate_envelope(bank, ias, mach, vso, vne, mmo)
    /\ UNCHANGED mainVars

\* two calls that differ in the bank angle only, both banks inside (0, 90)
EnvelopePair ==
    /\ Fresh
    /\ \E bank1 \in BankInputs, bank2 \in BankInputs, ias \in IasInputs,
          mach \in MachInputs, vso \in VsoInputs, vne \in VneInputs,
          mmo \in MmoInputs :
          /\ RLt(R(0), bank1)
          /\ RLt(bank1, bank2)
          /\ RLt(bank2, R(90))
          /\ call' = [fn |-> "calculate_envelope_pair",
                      bank1_deg |-> bank1, bank2_deg |-> bank2,
                      ias_kts |-> ias, mach |-> mach,
                      vso_kts |-> vso, vne_kts |-> vne, mmo |-> mmo]
          /\ ret' = [at1 |-> calculate_envelope(bank1, ias, mach, vso, vne, mmo),
                     at2 |-> calculate_envelope(bank2, ias, mach, vso, vne, mmo)]
    /\ UNCHANGED mainVars

WindSpeedInputs == {R(0), R(15), R(40)}

\* the multiples of 90 degrees from one circle below zero to two circles
\* above, and their neighbours up to MaxDriftOff spacings away
DriftInputs ==
    {u \in {Deg(90 * k) + j * UlpOf(Abs(Deg(90 * k))) :
               k \in -MaxQuarter..(2 * MaxQuarter),
               j \in -MaxDriftOff..MaxDriftOff} :
        Representable(u)}

\* winds on the cardinal directions, and calm air on any track and heading
\* (the wind direction is the track, its relative direction is 0)
WindInputs ==
    [track : CourseInputs, heading : CourseInputs, wind_dir : CourseInputs,
     wind_speed : WindSpeedInputs]
    \cup {[track |-> t, heading |-> h, wind_dir |-> t, wind_speed |-> R(0)] :
            t \in DriftInputs, h \in DriftInputs}

CalculateWind ==
    /\ Fresh
    /\ \E w \in WindInputs :
          /\ call' = [fn |-> "calculate_wind", track |-> w.track,
                      heading |-> w.heading, wind_dir |-> w.wind_dir,
                      wind_speed |-> w.wind_speed]
          /\ ret' = calculate_wind(w.track, w.heading, w.wind_dir,
                                   w.wind_speed)
    /\ UNCHANGED mainVars

VnavAltitudeInputs == {R(0), R(1), R(5000), R(10000)}

\* below, at and above min_distance_nm
VnavDistanceInputs == {R(-5), R(0), Rat(1, 200), Rat(1, 100), R(20)}

\* below, at and above min_groundspeed_kts
VnavGroundspeedInputs == {R(-10), R(0), Rat(1, 2), R(1), R(120)}

VnavVsInputs == {R(-500), R(0), R(1), R(700)}

CalculateVnav ==
    /\ Fresh
    /\ \E current \in VnavAltitudeInputs, target \in VnavAltitudeInputs,
          distance \in VnavDistanceInputs, gs \in VnavGroundspeedInputs,
          vs \in VnavVsInputs :
          /\ call' = [fn |-> "calculate_vnav", current_alt_ft |-> current,
                      target_alt_ft |-> target, distance_nm |-> distance,
                      groundspeed_kts |-> gs, current_vs_fpm |-> vs]
          /\ ret' = calculate_vnav(current, target, distance, gs, vs)
    /\ UNCHANGED mainVars

BinomialCoefficient ==
    /\ Fresh
    /\ \E n \in 0..MaxChoose, k \in 0..MaxChoose :
          /\ call' = [fn |-> "binomial_coefficient", n |-> n, k |-> k]
          /\ ret' = [value |-> binomial_coefficient(n, k),
                     calls |-> binomial_calls(n, k)]
    /\ UNCHANGED mainVars

\* vertical speeds in steps of half a foot per minute around the deadband
VsInputs == {Rat(k, 2) : k \in -MaxVsHalf..MaxVsHalf} \cup {R(-1500), R(1500)}

TasInputs == {R(0), R(150), R(300)}

AltitudeInputs == {R(0), R(35000)}

Energy ==
    /\ Fresh
    /\ \E tas \in TasInputs, alt \in AltitudeInputs, vs \in VsInputs :
          /\ call' = [fn |-> "calculate_energy",
                      tas_kts |-> tas, altitude_ft |-> alt, vs_fpm |-> vs]
          /\ ret' = calculate_energy(tas, alt, vs)
    /\ UNCHANGED mainVars

Next ==
    \/ GlideReach
    \/ WindVector
    \/ NormalizeAngle
    \/ WindNormalizeAngle
    \/ Envelope
    \/ EnvelopePair
    \/ CalculateWind
    \/ CalculateVnav
    \/ BinomialCoefficient
    \/ Energy

Spec == Init /\ [][Next]_vars

(***************************************************************************)
(* main of flight_calculator.cpp, one action per statement group           *)
(***************************************************************************)
ArgCount == 14

\* the parsed values of a well-formed command line
ArgValues ==
    [tas_kts : {R(1), R(2)}, gs_kts : {R(1), R(2)},
     heading : {0, Deg(90)}, track : {0, Deg(90)},
     ias_kts : {R(180)}, mach : {Rat(1, 2)}, altitude_ft : {R(1000)},
     agl_ft : {R(-500), R(1000)}, vs_fpm : {R(0), R(60)},
     weight_kg : {R(1000)},
     bank_deg : {R(0), Rat(7552, 100), R(90), R(180)},
     vso_kts : {R(120)}, vne_kts : {R(350)}, mmo : {Rat(82, 100)}]

SampleValues == CHOOSE v \in ArgValues : TRUE

\* count: the number of arguments after the program name; bad: the index of
\* the first argument std::stod throws on, 0 when every argument parses
ArgvInputs ==
    {[count |-> c, bad |-> 0, values |-> SampleValues] :
        c \in {ArgCount - 1, ArgCount + 1}}
    \cup {[count |-> ArgCount, bad |-> b, values |-> SampleValues] :
            b \in 1..ArgCount}
    \cup {[count |-> ArgCount, bad |-> 0, values |-> v] : v \in ArgValues}

InitMain ==
    /\ call = [fn |-> "none"]
    /\ ret = [fn |-> "none"]
    /\ pc = "start"
    /\ argv \in ArgvInputs
    /\ frame = EmptyFrame
    /\ stdout = <<>>
    /\ exit_code = -1

\* if (args.size() != 14) { usage on stderr; return 1; }
CheckArgCount ==
    /\ pc = "start"
    /\ IF argv.count # ArgCount
       THEN pc' = "done" /\ exit_code' = 1
       ELSE pc' = "parse" /\ UNCHANGED exit_code
    /\ UNCHANGED <<argv, frame, stdout, unitVars>>

\* every argument is taken to parse
parse_never_throws(args) == FALSE

\* one of the fourteen parse_double calls throws (std::stod)
parse_throws(args) == args.bad # 0

\* the fourteen parse_double calls; a throw lands in the catch: return 1
ParseArgs ==
    /\ pc = "parse"
    /\ IF parse_throws(argv)
       THEN pc' = "done" /\ exit_code' = 1 /\ UNCHANGED frame
       ELSE /\ pc' = "wind"
            /\ frame' = [frame EXCEPT !.in = argv.values,
                                      !.ias_history = MainHistory]
            /\ UNCHANGED exit_code
    /\ UNCHANGED <<argv, stdout, unitVars>>

CallWindVector ==
    /\ pc = "wind"
    /\ call' = [fn |-> "calculate_wind_vector",
                tas_kts |-> frame.in.tas_kts, gs_kts |-> frame.in.gs_kts,
                heading_deg |-> frame.in.heading,
                track_deg |-> frame.in.track,
                ias_history |-> frame.ias_history]
    /\ ret' = calculate_wind_vector(frame.in.tas_kts, frame.in.gs_kts,
                  frame.in.heading, frame.in.track, frame.ias_history)
    /\ frame' = [frame EXCEPT !.wind = ret', !.computed = @ \cup {"wind"}]
    /\ pc' = "envelope"
    /\ UNCHANGED <<argv, stdout, exit_code>>

CallEnvelope ==
    /\ pc = "envelope"
    /\ call' = [fn |-> "calculate_envelope",
                bank_deg |-> frame.in.bank_deg, ias_kts |-> frame.in.ias_kts,
                mach |-> frame.in.mach, vso_kts |-> frame.in.vso_kts,
                vne_kts |-> frame.in.vne_kts, mmo |-> frame.in.mmo]
    /\ ret' = calculate_envelope(frame.in.bank_deg, frame.in.ias_kts,
                  frame.in.mach, frame.in.vso_kts, frame.in.vne_kts,
                  frame.in.mmo)
    /\ frame' = [frame EXCEPT !.envelope = ret',
                              !.computed = @ \cup {"envelope"}]
    /\ pc' = "energy"
    /\ UNCHANGED <<argv, stdout, exit_code>>

CallEnergy ==
    /\ pc = "energy"
    /\ call' = [fn |-> "calculate_energy",
                tas_kts |-> frame.in.tas_kts,
                altitude_ft |-> frame.in.altitude_ft,
                vs_fpm |-> frame.in.vs_fpm]
    /\ ret' = calculate_energy(frame.in.tas_kts, frame.in.altitude_ft,
                  frame.in.vs_fpm)
    /\ frame' = [frame EXCEPT !.energy = ret', !.computed = @ \cup {"energy"}]
    /\ pc' = "glide"
    /\ UNCHANGED <<argv, stdout, exit_code>>

\* the last argument of the call is taken to be still air
still_air_headwind(wind) == R(0)

\* the last argument of the call: wind.headwind
glide_headwind(wind) == wind.headwind

CallGlideReach ==
    /\ pc = "glide"
    /\ call' = [fn |-> "calculate_glide_reach", agl_ft |-> frame.in.agl_ft,
                headwind_kts |-> glide_headwind(frame.wind)]
    /\ ret' = calculate_glide_reach(frame.in.agl_ft,
                                     glide_headwind(frame.wind))
    /\ frame' = [frame EXCEPT !.glide = ret', !.computed = @ \cup {"glide"}]
    /\ pc' = "print"
    /\ UNCHANGED <<argv, stdout, exit_code>>

\* print_json_results(wind, envelope, energy, glide); return 0;
PrintJsonResults ==
    /\ pc = "print"
    /\ stdout' = Append(stdout,
          [wind |-> frame.wind, envelope |-> frame.envelope,
           energy |-> frame.energy, glide |-> frame.glide,
           alternate_airports |->
               [combinations_5_choose_2 |-> binomial_coefficient(5, 2),
                combinations_10_choose_3 |-> binomial_coefficient(10, 3)]])
    /\ pc' = "done"
    /\ exit_code' = 0
    /\ UNCHANGED <<argv, frame, unitVars>>

NextMain ==
    \/ CheckArgCount
    \/ ParseArgs
    \/ CallWindVector
    \/ CallEnvelope
    \/ CallEnergy
    \/ CallGlideReach
    \/ PrintJsonResults

SpecMain == InitMain /\ [][NextMain]_vars

(***************************************************************************)
(* main of wind_calculator.cpp, turn_calculator.cpp and vnav_calculator.cpp *)
(*                                                                         *)
(* argv.argc counts the program name; argv.unparsable is the set of        *)
(* argument positions parse_float64 rejects; argv.values holds what the    *)
(* other positions parse to.  A main that fails leaves its diagnostic (on  *)
(* standard error in the code) in frame.                                   *)
(***************************************************************************)
error_success == 0

error_invalid_args == 1

error_parse_failed == 2

error_invalid_value == 3

WindArgc == 5

TurnArgc == 4

VnavArgc == 6

NaN == [n |-> 0, d |-> 0]

WindValues ==
    [track : {0, Deg(90)}, heading : {0, Deg(90)}, wind_dir : {0, Deg(270)},
     wind_speed : {R(-5), R(0), R(15), NaN}]

TurnValues ==
    [tas_kts : {R(-10), R(0), R(100), R(250), NaN},
     bank_deg : {R(-1), R(0), Rat(5, 100), R(25), R(60), R(90), Rat(181, 2),
                 NaN},
     course_change_deg : {R(-90), R(0), R(90), R(180)}]
    \* a shallow bank just above the wings-level threshold; its radius is
    \* not combined with a course reversal, whose lead distance is beyond
    \* the range of the integers used here
    \cup [tas_kts : {R(100), R(250)}, bank_deg : {Rat(1, 10)},
          course_change_deg : {R(-90), R(0), R(90)}]

VnavValues ==
    [current_alt_ft : {R(0), R(5000)}, target_alt_ft : {R(0), R(5000)},
     distance_nm : {R(-5), R(20)}, groundspeed_kts : {R(0), R(120)},
     current_vs_fpm : {R(0), R(700)}]

JsfArgv(prog, argc, values) ==
    {[prog |-> prog, argc |-> c, unparsable |-> {}, values |-> v] :
        c \in {argc - 1, argc + 1}, v \in values}
    \cup {[prog |-> prog, argc |-> argc, unparsable |-> u, values |-> v] :
            u \in SUBSET (1..argc - 1), v \in values}

JsfArgvInputs ==
    JsfArgv("wind_calculator", WindArgc, WindValues)
    \cup JsfArgv("turn_calculator", TurnArgc, TurnValues)
    \cup JsfArgv("vnav_calculator", VnavArgc, VnavValues)

InitJsf ==
    /\ call = [fn |-> "none"]
    /\ ret = [fn |-> "none"]
    /\ pc = "start"
    /\ argv \in JsfArgvInputs
    /\ frame = Unset
    /\ stdout = <<>>
    /\ exit_code = -1

\* the else-if chain of parse_float64 calls stops at the first failure
FirstUnparsable(positions) ==
    CHOOSE i \in positions : \A j \in positions : i <= j

\* return_code = code; the single return at the end of main
ReturnError(code, diagnostic) ==
    /\ pc' = "done"
    /\ exit_code' = code
    /\ frame' = [diagnostic |-> diagnostic]
    /\ UNCHANGED <<argv, stdout, unitVars>>

Proceed ==
    /\ pc' = "calculate"
    /\ frame' = [in |-> argv.values]
    /\ UNCHANGED <<argv, stdout, exit_code, unitVars>>

\* no wind speed is out of range
wind_speed_never_rejected(wind_speed) == FALSE

\* wind_speed < wind_calm_threshold
wind_speed_rejected(wind_speed) == RLt(wind_speed, R(0))

WindMainCheck ==
    /\ pc = "start"
    /\ argv.prog = "wind_calculator"
    /\ IF argv.argc # WindArgc
       THEN ReturnError(error_invalid_args, "usage")
       ELSE IF argv.unparsable # {}
       THEN ReturnError(error_parse_failed, FirstUnparsable(argv.unparsable))
       ELSE IF wind_speed_rejected(argv.values.wind_speed)
       THEN ReturnError(error_invalid_value, "wind speed")
       ELSE Proceed

WindMainCalculate ==
    /\ pc = "calculate"
    /\ argv.prog = "wind_calculator"
    /\ call' = [fn |-> "calculate_wind", track |-> frame.in.track,
                heading |-> frame.in.heading, wind_dir |-> frame.in.wind_dir,
                wind_speed |-> frame.in.wind_speed]
    /\ ret' = calculate_wind(frame.in.track, frame.in.heading,
                             frame.in.wind_dir, frame.in.wind_speed)
    /\ stdout' = Append(stdout, ret')
    /\ exit_code' = error_success
    /\ pc' = "done"
    /\ UNCHANGED <<argv, frame>>

TurnMainCheck ==
    /\ pc = "start"
    /\ argv.prog = "turn_calculator"
    /\ IF argv.argc # TurnArgc
       THEN ReturnError(error_invalid_args, "usage")
       ELSE IF argv.unparsable # {}
       THEN ReturnError(error_parse_failed, FirstUnparsable(argv.unparsable))
       ELSE IF RLe(argv.values.tas_kts, R(0))
       THEN ReturnError(error_invalid_value, "tas")
       ELSE IF \/ RLt(argv.values.bank_deg, R(0))
               \/ RGt(argv.values.bank_deg, R(90))
       THEN ReturnError(error_invalid_value, "bank angle")
       ELSE Proceed

TurnMainCalculate ==
    /\ pc = "calculate"
    /\ argv.prog = "turn_calculator"
    /\ call' = [fn |-> "calculate_turn_performance",
                tas_kts |-> frame.in.tas_kts, bank_deg |-> frame.in.bank_deg,
                course_change_deg |-> frame.in.course_change_deg]
    /\ ret' = calculate_turn_performance(frame.in.tas_kts, frame.in.bank_deg,
                                         frame.in.course_change_deg)
    /\ stdout' = Append(stdout, ret')
    /\ exit_code' = error_success
    /\ pc' = "done"
    /\ UNCHANGED <<argv, frame>>

VnavMainCheck ==
    /\ pc = "start"
    /\ argv.prog = "vnav_calculator"
    /\ IF argv.argc # VnavArgc
       THEN ReturnError(error_invalid_args, "usage")
       ELSE IF argv.unparsable # {}
       THEN ReturnError(error_parse_failed, FirstUnparsable(argv.unparsable))
       ELSE Proceed

VnavMainCalculate ==
    /\ pc = "calculate"
    /\ argv.prog = "vnav_calculator"
    /\ call' = [fn |-> "calculate_vnav",
                current_alt_ft |-> frame.in.current_alt_ft,
                target_alt_ft |-> frame.in.target_alt_ft,
                distance_nm |-> frame.in.distance_nm,
                groundspeed_kts |-> frame.in.groundspeed_kts,
                current_vs_fpm |-> frame.in.current_vs_fpm]
    /\ ret' = calculate_vnav(frame.in.current_alt_ft, frame.in.target_alt_ft,
                  frame.in.distance_nm, frame.in.groundspeed_kts,
                  frame.in.current_vs_fpm)
    /\ stdout' = Append(stdout, ret')
    /\ exit_code' = error_success
    /\ pc' = "done"
    /\ UNCHANGED <<argv, frame>>

NextJsf ==
    \/ WindMainCheck
    \/ WindMainCalculate
    \/ TurnMainCheck
    \/ TurnMainCalculate
    \/ VnavMainCheck
    \/ VnavMainCalculate

SpecJsf == InitJsf /\ [][NextJsf]_vars

\* a value that is zero (and neither infinite nor NaN)
IsZero(x) == x.d # 0 /\ x.n = 0

(***************************************************************************)
(* Claims about calculate_glide_reach                                      *)
(***************************************************************************)
IsGlide == call.fn = "calculate_glide_reach"

\* C1: calculate_glide_reach never returns a negative wind-adjusted range,
\* for every height above ground and every headwind of either sign.
C1_GlideRangeNeverNegative ==
    IsGlide => RGe(ret.max_range_with_wind_nm, R(0))

\* C1 witness: a positive height and a headwind above best glide speed, where
\* the product is negative and the clamp has replaced it by 0.
C1_Witness ==
    /\ IsGlide
    /\ RGt(call.agl_ft, R(0))
    /\ RGt(call.headwind_kts, ret.best_glide_speed_kts)
    /\ RGt(ret.max_range_nm, R(0))
    /\ ret.max_range_with_wind_nm = R(0)

\* C2: for every headwind >= best-glide speed (75) and every height above
\* ground, the wind-adjusted range is exactly 0.
C2_ExcessHeadwindGivesZero ==
    (IsGlide /\ RGe(call.headwind_kts, R(75)))
        => ret.max_range_with_wind_nm = R(0)

(***************************************************************************)
(* Claims about calculate_wind_vector                                      *)
(***************************************************************************)
IsWind == call.fn = "calculate_wind_vector"

\* the exact sum of the samples
RECURSIVE SeqSum(_, _)
SeqSum(h, i) == IF i > Len(h) THEN 0 ELSE h[i] + SeqSum(h, i + 1)

RECURSIVE SeqSumAbs(_, _)
SeqSumAbs(h, i) == IF i > Len(h) THEN 0 ELSE Abs(h[i]) + SeqSumAbs(h, i + 1)

\* the largest sample of a non-empty history
SeqMax(h) ==
    CHOOSE m \in {h[i] : i \in 1..Len(h)} : \A i \in 1..Len(h) : m >= h[i]

\* g is max(h) - mean(h) up to the rounding of the sum, the quotient and the
\* difference: two spacings of the doubles at the magnitude of the sum
MaxMinusMean(g, h) ==
    LET n == Len(h)
    IN  Abs(n * g - (n * SeqMax(h) - SeqSum(h, 1)))
            <= n * 2 * UlpOf(SeqSumAbs(h, 1))

\* C3: for a non-empty IAS history gust_factor = max(history) - mean(history);
\* for the empty history gust_factor = 0.
C3_GustIsMaxMinusMean ==
    IsWind =>
        IF Len(call.ias_history) = 0 THEN ret.gust_factor = 0
        ELSE MaxMinusMean(ret.gust_factor, call.ias_history)

\* C13: the gust factor is never negative, for every IAS history, empty or
\* not, whatever the sign of its samples.
C13_GustFactorNeverNegative ==
    IsWind => ret.gust_factor >= 0

\* the wind the inputs determine: ground velocity minus air velocity
TrueWind ==
    [x |-> RSub(RMul(call.gs_kts, SinDeg(call.track_deg)),
                RMul(call.tas_kts, SinDeg(call.heading_deg))),
     y |-> RSub(RMul(call.gs_kts, CosDeg(call.track_deg)),
                RMul(call.tas_kts, CosDeg(call.heading_deg)))]

\* component of the wind's motion towards the right-hand side of the track;
\* the right-hand unit vector of a track chi is (cos chi, -sin chi)
DriftToRight ==
    RSub(RMul(TrueWind.x, CosDeg(call.track_deg)),
         RMul(TrueWind.y, SinDeg(call.track_deg)))

\* wind that comes from the right blows towards the left
WindFromRight == RLt(DriftToRight, R(0))

WindFromLeft == RGt(DriftToRight, R(0))

\* C5: the reported crosswind is positive exactly when the wind originates
\* from the right of the ground track and negative when from the left.
C5_CrosswindPositiveFromRight ==
    (IsWind /\ (WindFromRight \/ WindFromLeft)) =>
        /\ RGt(ret.crosswind, R(0)) <=> WindFromRight
        /\ RLt(ret.crosswind, R(0)) <=> WindFromLeft

\* C6: whenever heading equals track, headwind = TAS - GS: positive when the
\* ground speed is below the true airspeed, negative when above.
C6_HeadwindIsTasMinusGs ==
    (IsWind /\ call.heading_deg = call.track_deg) =>
        /\ ret.headwind = RSub(call.tas_kts, call.gs_kts)
        /\ RLt(call.gs_kts, call.tas_kts) => RGt(ret.headwind, R(0))
        /\ RGt(call.gs_kts, call.tas_kts) => RLt(ret.headwind, R(0))

\* C6 witness: heading = track, ground speed below true airspeed, and the
\* computed headwind is the positive difference.
C6_Witness ==
    /\ IsWind
    /\ call.heading_deg = call.track_deg
    /\ call.heading_deg = Deg(270)
    /\ RLt(call.gs_kts, call.tas_kts)
    /\ RGt(ret.headwind, R(0))

\* C14: no-wind case: whenever heading equals track and TAS equals GS the
\* wind speed, the headwind and the crosswind are all 0, for every heading
\* and every IAS history.
C14_NoWindCase ==
    (IsWind /\ call.heading_deg = call.track_deg /\ call.tas_kts = call.gs_kts)
        => /\ ret.speed_kts = [sq |-> R(0)]
           /\ ret.headwind = R(0)
           /\ ret.crosswind = R(0)

\* C14 witness: a moving aircraft (TAS = GS > 0) flying east with heading =
\* track and a non-empty history, and the three wind values are 0.
C14_Witness ==
    /\ IsWind
    /\ call.heading_deg = Deg(90)
    /\ call.track_deg = Deg(90)
    /\ call.tas_kts = call.gs_kts
    /\ RGt(call.tas_kts, R(0))
    /\ Len(call.ias_history) > 0
    /\ ret.speed_kts = [sq |-> R(0)]
    /\ ret.headwind = R(0)
    /\ ret.crosswind = R(0)

(***************************************************************************)
(* Claims about calculate_wind of the wind calculator                      *)
(***************************************************************************)
IsCalculateWind == call.fn = "calculate_wind"

\* the direction the wind comes from, relative to the track, in [0, 360)
WindFromRelative == (call.wind_dir - call.track) % Deg(360)

\* C17: headwind is positive for a headwind and negative for a tailwind:
\* wind from directly ahead (wind_dir = track) gives headwind = +wind_speed
\* and wind from directly behind (wind_dir = track + 180) gives -wind_speed.
C17_HeadwindPositiveFromAhead ==
    IsCalculateWind =>
        /\ WindFromRelative = 0 => ret.headwind = call.wind_speed
        /\ WindFromRelative = Deg(180) => ret.headwind = RNeg(call.wind_speed)

\* the distance of x from the nearest multiple of 360
OffCircle(x) ==
    LET off == x % Deg(360)
    IN  IF 2 * off > Deg(360) THEN Deg(360) - off ELSE off

\* the four roundings on the way to the drift (track, heading, their
\* difference, the wrap of a negative difference), half a spacing of the
\* doubles at 360 each
DriftRounding == 2 * UlpOf(Deg(360))

DriftHalfCircle ==
    (IsCalculateWind /\ OffCircle(call.track - call.heading) = Deg(180)
     /\ call.track \in CourseInputs /\ call.heading \in CourseInputs) =>
        ret.drift = Deg(180)

(***************************************************************************)
(* Claims about calculate_vnav                                             *)
(***************************************************************************)
IsVnav == call.fn = "calculate_vnav"

IsClimb == RGt(call.target_alt_ft, call.current_alt_ft)

IsDescent == RLt(call.target_alt_ft, call.current_alt_ft)

\* C18: vs_for_3deg is positive when the altitude change is a climb and
\* negative when it is a descent, for every groundspeed, clamped or not.
C18_VsFor3DegSignFollowsChange ==
    IsVnav =>
        /\ IsClimb => RGt(ret.vs_for_3deg, R(0))
        /\ IsDescent => RLt(ret.vs_for_3deg, R(0))

\* C19: is_descent is true iff target altitude < current altitude, and
\* exactly then flight_path_angle_deg < 0, required_vs_fpm < 0 and
\* altitude_to_lose_ft > 0; for a climb the three signs are reversed; for
\* equal altitudes is_descent is false and the three values are 0; also
\* when distance or groundspeed is clamped to its minimum.
C19_DescentIndicatorsAgree ==
    IsVnav =>
        /\ ret.is_descent <=> IsDescent
        /\ IsDescent =>
              /\ QSign(ret.flight_path_angle_deg.atan_of) < 0
              /\ QSign(ret.required_vs_fpm) < 0
              /\ RGt(ret.altitude_to_lose_ft, R(0))
        /\ IsClimb =>
              /\ QSign(ret.flight_path_angle_deg.atan_of) > 0
              /\ QSign(ret.required_vs_fpm) > 0
              /\ RLt(ret.altitude_to_lose_ft, R(0))
        /\ (~IsDescent /\ ~IsClimb) =>
              /\ ~ret.is_descent
              /\ QSign(ret.flight_path_angle_deg.atan_of) = 0
              /\ QSign(ret.required_vs_fpm) = 0
              /\ ret.altitude_to_lose_ft = R(0)
        /\ ret.flight_path_angle_deg.atan_of.den.n # 0
        /\ ret.required_vs_fpm.den.n # 0

\* C19 witness: a descent with the distance and the groundspeed both below
\* their minimum (and negative), and the three indicators say descent.
C19_Witness ==
    /\ IsVnav
    /\ IsDescent
    /\ RLt(call.distance_nm, R(0))
    /\ RLt(call.groundspeed_kts, R(0))
    /\ ret.is_descent
    /\ QSign(ret.flight_path_angle_deg.atan_of) < 0
    /\ QSign(ret.required_vs_fpm) < 0
    /\ RGt(ret.altitude_to_lose_ft, R(0))

VnavDivisions ==
    vnav_divisions(call.current_alt_ft, call.target_alt_ft, call.distance_nm,
                   call.groundspeed_kts, call.current_vs_fpm)

VnavDivisor(result) == (CHOOSE d \in VnavDivisions : d.of = result).by

VnavDividedFor(result) == \E d \in VnavDivisions : d.of = result

AbsAltChange == RAbs(RSub(call.target_alt_ft, call.current_alt_ft))

\* C24: calculate_vnav never divides by zero, whatever its inputs: a
\* distance below 0.01 NM is replaced by 0.01 and a groundspeed below 1.0 kt
\* by 1.0 before they are used, the time to the constraint is the sentinel
\* 999.9 whenever |current_vs_fpm| <= 1, and distance_per_1000ft is 0
\* whenever the absolute altitude change is <= 1 ft; the two guarded
\* divisions are then not executed.
C24_VnavNeverDividesByZero ==
    IsVnav =>
        /\ \A d \in VnavDivisions : ~IsZero(d.by)
        /\ VnavDividedFor("gamma_rad")
        /\ RGe(VnavDivisor("gamma_rad"), RMul(Rat(1, 100), nm_to_ft))
        /\ RLt(call.distance_nm, Rat(1, 100)) =>
              /\ VnavDivisor("gamma_rad") = RMul(Rat(1, 100), nm_to_ft)
              /\ ret.flight_path_angle_deg.atan_of.den
                    = RMul(Rat(1, 100), nm_to_ft)
              /\ VnavDividedFor("distance_per_1000ft") =>
                    ret.distance_per_1000ft = RDiv(R(10), AbsAltChange)
        /\ RGe(call.distance_nm, Rat(1, 100)) =>
              VnavDivisor("gamma_rad") = RMul(call.distance_nm, nm_to_ft)
        /\ RLt(call.groundspeed_kts, R(1)) =>
              RAbs(ret.vs_for_3deg) = RMul(vs_conversion_factor, tan_three_deg)
        /\ RGe(call.groundspeed_kts, R(1)) =>
              RAbs(ret.vs_for_3deg)
                  = RMul(RMul(vs_conversion_factor, call.groundspeed_kts),
                         tan_three_deg)
        /\ RLe(RAbs(call.current_vs_fpm), R(1)) =>
              /\ ~VnavDividedFor("time_to_constraint_min")
              /\ ret.time_to_constraint_min = Rat(9999, 10)
        /\ RGt(RAbs(call.current_vs_fpm), R(1)) =>
              /\ VnavDividedFor("time_to_constraint_min")
              /\ VnavDivisor("time_to_constraint_min") = call.current_vs_fpm
        /\ RLe(AbsAltChange, R(1)) =>
              /\ ~VnavDividedFor("distance_per_1000ft")
              /\ ret.distance_per_1000ft = R(0)
        /\ RGt(AbsAltChange, R(1)) => VnavDividedFor("distance_per_1000ft")

\* C24 witness: a zero distance, a zero groundspeed and a zero vertical speed
\* with an altitude change of exactly 1 ft: both minimums are applied and
\* both guards give their fixed value.
C24_Witness ==
    /\ IsVnav
    /\ call.distance_nm = R(0)
    /\ call.groundspeed_kts = R(0)
    /\ call.current_vs_fpm = R(0)
    /\ AbsAltChange = R(1)
    /\ ~IsZero(VnavDivisor("gamma_rad"))
    /\ ret.time_to_constraint_min = Rat(9999, 10)
    /\ ret.distance_per_1000ft = R(0)

(***************************************************************************)
(* Claims about normalize_angle                                            *)
(***************************************************************************)
IsNormalize == call.fn \in {"normalize_angle", "wind_normalize_angle"}

\* C7: normalize_angle completes after at most one addition or subtraction of
\* 360, a number of correction steps independent of the input's magnitude,
\* in the loop-based and in the fmod-based implementation.
C7_AtMostOneCorrection ==
    IsNormalize => ret.steps <= 1

\* the implementation the run applied, applied once more
NormalizedAgain ==
    IF call.fn = "normalize_angle" THEN normalize_angle(ret.angle)
    ELSE wind_normalize_angle(ret.angle)

\* r and x differ by a multiple of 360, up to the rounding of one sum
\* at the magnitude of 360 (half the spacing of the doubles there)
CongruentMod360(r, x) ==
    LET off == (r - x) % Deg(360)
        err == IF 2 * off > Deg(360) THEN Deg(360) - off ELSE off
    IN  2 * err <= UlpOf(Deg(360))

\* C8: for every finite input both implementations return r with
\* 0 <= r < 360, r differs from the input by a multiple of 360, and
\* normalizing r returns r again.
C8_NormalizedRangeAndIdempotent ==
    IsNormalize =>
        /\ 0 <= ret.angle
        /\ ret.angle < Deg(360)
        /\ CongruentMod360(ret.angle, call.angle)
        /\ NormalizedAgain = ret.angle

\* the same statement about the loop-based implementation alone
LoopNormalizedRangeAndIdempotent ==
    call.fn = "normalize_angle" =>
        /\ 0 <= ret.angle
        /\ ret.angle < Deg(360)
        /\ CongruentMod360(ret.angle, call.angle)
        /\ normalize_angle(ret.angle) = ret.angle

(***************************************************************************)
(* Claims about calculate_energy                                           *)
(***************************************************************************)
IsEnergy == call.fn = "calculate_energy"

\* C9: the trend is Increasing iff vertical speed > +50, Decreasing iff
\* vertical speed < -50 and Stable otherwise (so exactly +50 and -50 are
\* Stable), whatever the true airspeed and the altitude.
C9_TrendFromVerticalSpeedOnly ==
    IsEnergy =>
        /\ ret.trend = "Increasing" <=> RGt(call.vs_fpm, R(50))
        /\ ret.trend = "Decreasing" <=> RLt(call.vs_fpm, R(-50))
        /\ ret.trend = "Stable" <=>
              (RLe(call.vs_fpm, R(50)) /\ RGe(call.vs_fpm, R(-50)))
        /\ ret.specific_energy_rate = call.vs_fpm

\* C9 witness: a vertical speed of exactly +50 at a non-zero airspeed and
\* altitude, classified Stable.
C9_Witness ==
    /\ IsEnergy
    /\ call.vs_fpm = R(50)
    /\ RGt(call.tas_kts, R(0))
    /\ RGt(call.altitude_ft, R(0))
    /\ ret.trend = "Stable"

(***************************************************************************)
(* Claims about calculate_envelope                                         *)
(***************************************************************************)
IsEnvelope == call.fn = "calculate_envelope"

\* Vs_n = Vs_1g * sqrt(n), n = 1 / cos(bank)
VsN == RMul(call.vso_kts, RSqrt(RDiv(R(1), CosBank(call.bank_deg))))

\* C10: each margin is exactly 100 when its reference (Vs_n, Vne, Mmo) is not
\* greater than 0 and its percentage formula otherwise, and no margin is the
\* result of a division by zero.
C10_MarginFallbacks ==
    IsEnvelope =>
        /\ ret.stall_margin_pct =
              IF RGt(VsN, R(0))
              THEN RMul(RDiv(RSub(call.ias_kts, VsN), VsN), R(100))
              ELSE R(100)
        /\ ret.vmo_margin_pct =
              IF RGt(call.vne_kts, R(0))
              THEN RMul(RDiv(RSub(call.vne_kts, call.ias_kts), call.vne_kts),
                        R(100))
              ELSE R(100)
        /\ ret.mmo_margin_pct =
              IF RGt(call.mmo, R(0))
              THEN RMul(RDiv(RSub(call.mmo, call.mach), call.mmo), R(100))
              ELSE R(100)
        /\ IsFinite(ret.stall_margin_pct)
        /\ IsFinite(ret.vmo_margin_pct)
        /\ IsFinite(ret.mmo_margin_pct)

\* C10 witness: all three references are zero and all three margins are 100.
C10_Witness ==
    /\ IsEnvelope
    /\ call.vso_kts = R(0)
    /\ call.vne_kts = R(0)
    /\ call.mmo = R(0)
    /\ ret.stall_margin_pct = R(100)
    /\ ret.vmo_margin_pct = R(100)
    /\ ret.mmo_margin_pct = R(100)

\* C11: min_margin_pct is the minimum of the stall, VMO and MMO margins of
\* the same result: not greater than any of the three and equal to one of
\* them, also when a margin takes its 100 fallback.
C11_MinMarginIsMinimum ==
    IsEnvelope =>
        /\ RLe(ret.min_margin_pct, ret.stall_margin_pct)
        /\ RLe(ret.min_margin_pct, ret.vmo_margin_pct)
        /\ RLe(ret.min_margin_pct, ret.mmo_margin_pct)
        /\ ret.min_margin_pct \in {ret.stall_margin_pct, ret.vmo_margin_pct,
                                    ret.mmo_margin_pct}

\* C11 witness: the VMO margin is the 100 fallback and the MMO margin, the
\* last of the three, is strictly the smallest and is the one returned.
C11_Witness ==
    /\ IsEnvelope
    /\ call.vne_kts = R(0)
    /\ ret.vmo_margin_pct = R(100)
    /\ RLt(ret.mmo_margin_pct, ret.stall_margin_pct)
    /\ RLt(ret.mmo_margin_pct, R(100))
    /\ ret.min_margin_pct = ret.mmo_margin_pct

IsEnvelopePair == call.fn = "calculate_envelope_pair"

LoadLargerMarginNotLarger ==
    /\ RGt(ret.at2.current_load_factor, ret.at1.current_load_factor)
    /\ RLe(ret.at2.stall_margin_pct, ret.at1.stall_margin_pct)

\* C12 as stated: for every fixed IAS and fixed 1g stall speed and bank angles
\* b1 < b2 in (0, 90), the load factor at b2 is larger and the stall margin
\* at b2 is not larger than at b1.
C12_StallMarginDecreasing ==
    IsEnvelopePair => LoadLargerMarginNotLarger

\* C12 amended: the same for every fixed IAS that is not negative.
C12_StallMarginDecreasingFromZeroIas ==
    (IsEnvelopePair /\ RGe(call.ias_kts, R(0))) => LoadLargerMarginNotLarger

\* C12 witness: a positive IAS and stall speed, and the steeper bank has the
\* strictly smaller stall margin.
C12_Witness ==
    /\ IsEnvelopePair
    /\ RGt(call.ias_kts, R(0))
    /\ RGt(call.vso_kts, R(0))
    /\ RLt(ret.at2.stall_margin_pct, ret.at1.stall_margin_pct)

(***************************************************************************)
(* Claims about main of flight_calculator.cpp                              *)
(***************************************************************************)
BankBelow90 ==
    /\ RLt(argv.values.bank_deg, R(90))
    /\ RGt(argv.values.bank_deg, R(-90))

\* C4: main never invokes calculate_envelope with a bank angle at or beyond
\* 90 degrees; such an input is rejected before the envelope computation
\* runs and no report is produced from it.
C4_BankRejectedBeforeEnvelope ==
    /\ "envelope" \in frame.computed => BankBelow90
    /\ stdout # <<>> => BankBelow90

\* the arguments of the call in progress come from the command line alone
ArgsFromCommandLine(names) ==
    \A name \in names : call[name] = argv.values[name]

\* C15: in every run that produces a report the glide-reach computation
\* happens after the wind-vector computation has completed and receives
\* exactly the headwind field of that run's wind result; the envelope and
\* energy computations take no value from the other results.
C15_GlideAfterWindOnly ==
    /\ "glide" \in frame.computed => "wind" \in frame.computed
    /\ call.fn = "calculate_glide_reach" =>
          /\ "wind" \in frame.computed
          /\ call.headwind_kts = frame.wind.headwind
          /\ call.agl_ft = argv.values.agl_ft
    /\ call.fn = "calculate_envelope" =>
          ArgsFromCommandLine({"bank_deg", "ias_kts", "mach", "vso_kts",
                               "vne_kts", "mmo"})
    /\ call.fn = "calculate_energy" =>
          ArgsFromCommandLine({"tas_kts", "altitude_ft", "vs_fpm"})
    /\ stdout # <<>> =>
          /\ stdout[1].glide =
                calculate_glide_reach(argv.values.agl_ft,
                                      stdout[1].wind.headwind)
          /\ stdout[1].envelope =
                calculate_envelope(argv.values.bank_deg, argv.values.ias_kts,
                    argv.values.mach, argv.values.vso_kts,
                    argv.values.vne_kts, argv.values.mmo)
          /\ stdout[1].energy =
                calculate_energy(argv.values.tas_kts,
                    argv.values.altitude_ft, argv.values.vs_fpm)

\* C15 witness: a report whose wind result has a non-zero headwind, which
\* the glide computation received and which changed the glide range.
C15_Witness ==
    /\ stdout # <<>>
    /\ call.fn = "calculate_glide_reach"
    /\ frame.wind.headwind # R(0)
    /\ call.headwind_kts = frame.wind.headwind
    /\ stdout[1].glide.max_range_with_wind_nm # stdout[1].glide.max_range_nm

AllFour == {"wind", "envelope", "energy", "glide"}

\* C16: the report is printed only after all 14 arguments have been parsed
\* and all four sub-computations have completed, and then it holds all four
\* records and the exit code is 0; if the argument count is not 14 or an
\* argument fails to parse, nothing is printed and the exit code is 1.
C16_NoPartialReport ==
    /\ stdout # <<>> =>
          /\ argv.count = ArgCount
          /\ argv.bad = 0
          /\ frame.in = argv.values
          /\ frame.computed = AllFour
          /\ Len(stdout) = 1
          /\ stdout[1].wind = frame.wind
          /\ stdout[1].envelope = frame.envelope
          /\ stdout[1].energy = frame.energy
          /\ stdout[1].glide = frame.glide
          /\ exit_code = 0
    /\ exit_code = 0 => stdout # <<>>
    /\ (argv.count # ArgCount \/ argv.bad # 0) =>
          /\ stdout = <<>>
          /\ frame.computed = {}
          /\ exit_code \in {-1, 1}
          /\ pc = "done" => exit_code = 1

\* C16 witness: a finished run with 14 parsed arguments, the four results
\* computed, one report on standard output and exit code 0.
C16_Witness ==
    /\ pc = "done"
    /\ argv.count = ArgCount
    /\ argv.bad = 0
    /\ frame.computed = AllFour
    /\ Len(stdout) = 1
    /\ exit_code = 0

(***************************************************************************)
(* Claims about the divisions of calculate_turn_performance                *)
(***************************************************************************)
\* main of the turn calculator accepted its arguments and printed the result
TurnAccepted ==
    /\ argv.prog = "turn_calculator"
    /\ pc = "done"
    /\ exit_code = error_success
    /\ call.fn = "calculate_turn_performance"

TurnDivisions ==
    turn_divisions(call.tas_kts, call.bank_deg, call.course_change_deg)

DividedFor(result) == \E d \in TurnDivisions : d.of = result

TanOfBank == RFl(TurnBank(call.bank_deg).tan)

\* C22: for every input the validation of main accepts, no division of
\* calculate_turn_performance has a zero divisor (cos(bank), g * tan(bank),
\* v_ms and turn_rate_dps among them); when |tan(bank)| < 0.001 the result is
\* the sentinels 999.9 / 999900 / 0 and when |turn rate| <= 0.01 the time to
\* turn is 999.9, and then the guarded divisions are not executed.
C22_TurnDivisorsNonZero ==
    TurnAccepted =>
        /\ \A d \in TurnDivisions : ~IsZero(d.by)
        /\ DividedFor("load_factor")
        /\ RLt(RAbs(TanOfBank), min_tan_threshold) =>
              /\ ~DividedFor("radius_m")
              /\ ~DividedFor("omega_rad_s")
              /\ ~DividedFor("time_to_turn_sec")
              /\ ret.radius_nm = infinite_radius_nm
              /\ ret.radius_ft = infinite_radius_ft
              /\ ret.turn_rate_dps = R(0)
              /\ ret.lead_distance_nm = R(0)
              /\ ret.lead_distance_ft = R(0)
              /\ ret.time_to_turn_sec = Rat(9999, 10)
        /\ RGe(RAbs(TanOfBank), min_tan_threshold) =>
              /\ DividedFor("radius_m")
              /\ DividedFor("omega_rad_s")
              /\ RLe(RAbs(ret.turn_rate_dps), min_turn_rate_threshold) =>
                    /\ ~DividedFor("time_to_turn_sec")
                    /\ ret.time_to_turn_sec = Rat(9999, 10)
              /\ RGt(RAbs(ret.turn_rate_dps), min_turn_rate_threshold) =>
                    DividedFor("time_to_turn_sec")

\* C22 witness: an accepted turn of 0.1 degrees of bank at 250 kt passes
\* the wings-level guard, divides by g * tan(bank) and by v_ms, and is
\* stopped by the turn-rate guard.
C22_Witness ==
    /\ TurnAccepted
    /\ call.tas_kts = R(250)
    /\ call.bank_deg = Rat(1, 10)
    /\ DividedFor("radius_m")
    /\ ~DividedFor("time_to_turn_sec")
    /\ ret.time_to_turn_sec = Rat(9999, 10)
    /\ ~IsZero(ret.turn_rate_dps)

(***************************************************************************)
(* Claims about binomial_coefficient                                       *)
(***************************************************************************)
IsBinomial == call.fn = "binomial_coefficient"

RECURSIVE Factorial(_)
Factorial(n) == IF n = 0 THEN 1 ELSE n * Factorial(n - 1)

\* C21: binomial_coefficient(n, k) terminates and returns n! / (k! (n-k)!)
\* for every 0 <= k <= n and 0 for every k > n, (5,2) = 10 and (10,3) = 120
\* among them, for all n and k of a bounded range.
C21_BinomialIsChoose ==
    IsBinomial =>
        /\ call.k > call.n => ret.value = 0
        /\ call.k <= call.n =>
              ret.value * Factorial(call.k) * Factorial(call.n - call.k)
                  = Factorial(call.n)
        /\ (call.n = 5 /\ call.k = 2) => ret.value = 10
        /\ (call.n = 10 /\ call.k = 3) => ret.value = 120
        /\ ret.calls <= Pow2(call.n)

\* C21 witness: the call (10, 3), which recurses, has returned 120.
C21_Witness ==
    /\ IsBinomial
    /\ call.n = 10
    /\ call.k = 3
    /\ ret.value = 120
    /\ ret.calls > 1

(***************************************************************************)
(* Claims about the mains of the wind, turn and vnav calculators           *)
(***************************************************************************)
\* a value-range violation of the parsed command line
RangeViolation ==
    IF argv.prog = "wind_calculator"
    THEN RLt(argv.values.wind_speed, R(0))
    ELSE IF argv.prog = "turn_calculator"
    THEN \/ RLe(argv.values.tas_kts, R(0))
         \/ RLt(argv.values.bank_deg, R(0))
         \/ RGt(argv.values.bank_deg, R(90))
    ELSE FALSE

ArgcOf ==
    IF argv.prog = "wind_calculator" THEN WindArgc
    ELSE IF argv.prog = "turn_calculator" THEN TurnArgc
    ELSE VnavArgc

\* C20: in each of the wind, turn and vnav calculators main prints a JSON
\* result iff it returns error_success (0); a wrong argument count returns
\* 1, an argument that fails to parse returns 2 and is reported as the first
\* such argument in command-line order, a value-range violation (negative
\* wind speed; TAS <= 0 or bank outside [0, 90]) returns 3; in every
\* non-zero case the calculation function is not called and nothing is
\* printed.
C20_JsfExitCodes ==
    /\ stdout # <<>> <=> exit_code = error_success
    /\ pc = "done" =>
          exit_code =
              IF argv.argc # ArgcOf THEN error_invalid_args
              ELSE IF argv.unparsable # {} THEN error_parse_failed
              ELSE IF RangeViolation THEN error_invalid_value
              ELSE error_success
    /\ (pc = "done" /\ exit_code = error_parse_failed) =>
          \A i \in argv.unparsable : frame.diagnostic <= i
    /\ (pc = "done" /\ exit_code # error_success) =>
          /\ call.fn = "none"
          /\ stdout = <<>>
    /\ call.fn # "none" => (Len(stdout) = 1 /\ stdout[1] = ret)

\* C20 witness: the turn calculator with three parsed arguments, a positive
\* TAS and a bank angle above 90 degrees has returned 3 and printed nothing.
C20_Witness ==
    /\ pc = "done"
    /\ argv.prog = "turn_calculator"
    /\ argv.argc = TurnArgc
    /\ argv.unparsable = {}
    /\ RGt(argv.values.tas_kts, R(0))
    /\ RGt(argv.values.bank_deg, R(90))
    /\ exit_code = error_invalid_value
    /\ call.fn = "none"
    /\ stdout = <<>>

====
